---- MODULE Spec2Model ----
(***************************************************************************)
(* Model of the ST7789 display driver (src/src/lib.rs).                    *)
(*                                                                         *)
(* The driver owns an SPI bus, a chip-select pin (csx), a data/command pin *)
(* (dc) and a reset pin (rst).  Every public operation is a straight-line  *)
(* sequence of fallible pin and SPI actions chained with `?`, plus         *)
(* infallible delays.  An operation is modelled as one atomic action that  *)
(* threads a call record m through the operators below, which are named    *)
(* after the functions they model.  m.trace records every action the call  *)
(* performed on its collaborators (the recording a mock pin/bus/delay      *)
(* would make); m.err is the error the first failed action produced.       *)
(***************************************************************************)
EXTENDS Integers, Sequences, FiniteSets, TLC

VARIABLES
    size_x, size_y,   \* screen size stored by new
    buffer,           \* cargo feature "buffer" of the build
    csx, dc,          \* last level successfully driven on each pin ("u": never driven)
    opcodeOpen,       \* an opcode was transferred and csx.set_high was not called since
    phase,            \* "idle": the caller may call; "returned": a call has just returned
    call,             \* the operation called last, its arguments and the injected failure
    pre,              \* pin levels when that call started
    trace,            \* the actions that call performed, in order
    result,           \* what it returned: "Ok", "Spi" or "Pin"
    consumed,         \* how many colours it took from the colour iterator
    staged,           \* the indices i at which it stored a colour in the staging buffer
    madctl,           \* controller: the last MADCTL parameter received (-1: none yet)
    last              \* the call before it, when that was a successful set_orientation

vars == <<size_x, size_y, buffer, csx, dc, opcodeOpen, phase, call, pre,
          trace, result, consumed, staged, madctl, last>>

----------------------------------------------------------------------------
(* Bounds of the model *)

\* failure injection: the MaxFail first fallible actions of a call can fail
MaxFail == 44
\* colour sequences have 0..MaxColors elements
MaxColors == 129

(* Program constants *)

\* let mut buf = [0; 128]
BufLen == 128

----------------------------------------------------------------------------
(* Inputs *)

U16 == 65536

Sizes == { <<240, 240>>, <<240, 320>> }

\* pixels <<x, y>>
Points == { <<0, 0>>, <<4660, 22136>>, <<239, 65535>> }

\* address windows <<sx, sy, ex, ey>>: the corners of the u16 range, four
\* different values with different high and low bytes, a window of the
\* screen, and one with sx > ex and sy > ey
Windows ==
    { <<0, 0, 0, 0>>, <<65535, 65535, 65535, 65535>>,
      <<4660, 22136, 39612, 57072>>, <<0, 0, 239, 319>>, <<239, 319, 16, 32>> }

Orientations == { "Portrait", "Landscape", "PortraitSwapped", "LandscapeSwapped" }

\* the colour sequence of length n starting at seed: successive colours
\* differ in both bytes
ColorSeq(n, seed) == [ k \in 1..n |-> (seed + (k - 1) * 4111) % U16 ]

\* short sequences, and sequences around the multiples of the 64 colours
\* that fill the staging buffer
ShortColors == { ColorSeq(n, 515) : n \in 0..2 } \cup { ColorSeq(2, 65279) }
LongColors == { ColorSeq(n, 515) : n \in { k \in 3..MaxColors : k % 64 \in {0, 1, 63} } }

\* the calls of set_pixels: every window with the short sequences, the
\* screen window with the long ones
PixelsInputs ==
    (Windows \X ShortColors) \cup ({ <<0, 0, 239, 319>> } \X LongColors)

----------------------------------------------------------------------------
(* The opcode table and the orientation bytes *)

InstructionToU8 ==
    [ SWRESET |-> 1, SLPOUT |-> 17, NORON |-> 19, INVOFF |-> 32,
      INVON |-> 33, DISPON |-> 41, CASET |-> 42, RASET |-> 43,
      RAMWR |-> 44, MADCTL |-> 54, COLMOD |-> 58 ]

\* the orientation bytes with the two landscape values exchanged
OrientationToU8_exchanged ==
    [ Portrait |-> 0, Landscape |-> 160, PortraitSwapped |-> 192,
      LandscapeSwapped |-> 96 ]

OrientationToU8 ==
    [ Portrait |-> 0, Landscape |-> 96, PortraitSwapped |-> 192,
      LandscapeSwapped |-> 160 ]

\* u16::to_be_bytes
to_be_bytes(v) == << v \div 256, v % 256 >>

\* Option<&[u8]>
None == [ some |-> FALSE, val |-> <<>> ]
Some(v) == [ some |-> TRUE, val |-> v ]

----------------------------------------------------------------------------
(* Actions on the collaborators *)

\* one recorded action: what was done, the bytes written (SPI), the time
\* waited (delay), whether it succeeded, and, when it was done, the levels
\* last driven on the pins, whether an opcode was pending in the current
\* selection, and the last opcode this call had transferred (-1: none yet)
Ev(act, bytes, us, ok, lv) ==
    [ act |-> act, bytes |-> bytes, us |-> us, ok |-> ok,
      csx |-> lv.csx, dc |-> lv.dc, open |-> lv.open, cmd |-> lv.cmd ]

\* the levels lv after the successful action act
Drive(lv, act, bytes) ==
    CASE act = "csx_high" -> [ lv EXCEPT !.csx = "high", !.open = FALSE ]
      [] act = "csx_low"  -> [ lv EXCEPT !.csx = "low" ]
      [] act = "dc_high"  -> [ lv EXCEPT !.dc = "high" ]
      [] act = "dc_low"   -> [ lv EXCEPT !.dc = "low" ]
      [] act = "spi_cmd"  -> [ lv EXCEPT !.open = TRUE, !.cmd = bytes[Len(bytes)] ]
      [] act = "spi_data" ->
            \* the controller takes data of MADCTL as its orientation byte
            IF lv.cmd = InstructionToU8["MADCTL"] /\ lv.csx = "low"
                  /\ lv.dc = "high" /\ bytes # <<>>
            THEN [ lv EXCEPT !.madctl = bytes[Len(bytes)] ]
            ELSE lv
      [] OTHER            -> lv

\* the levels lv after the failed action act: the level of the pin is its
\* last successful one, but a failed csx.set_high is still the driver
\* closing the selection of the opcode
Attempt(lv, act) ==
    IF act = "csx_high" THEN [ lv EXCEPT !.open = FALSE ] ELSE lv

\* the call record at entry of a public operation, the pins being at lv;
\* failAt = 0: nothing fails
Start(failAt, lv) ==
    [ trace |-> <<>>, err |-> "Ok", n |-> 0, failAt |-> failAt, consumed |-> 0,
      staged |-> {}, lv |-> lv ]

\* `let v = e; K(v)`: e is evaluated once, then K goes on with its value
Bind(e, K(_)) == CHOOSE r \in { K(v) : v \in { e } } : TRUE

\* `let v = e?; K(v)`: the `?` returns the call record of e when e failed,
\* and K goes on with it otherwise
Try(e, K(_)) ==
    CHOOSE r \in { IF v.err # "Ok" THEN v ELSE K(v) : v \in { e } } : TRUE

\* a fallible action: when it is the injected failure it is recorded as
\* failed and its error, mapped by map_err, becomes the result, which the
\* `?` of the caller returns
Fallible(m, act, bytes, kind) ==
    IF m.n + 1 = m.failAt
    THEN [ m EXCEPT !.n = @ + 1,
                    !.trace = Append(@, Ev(act, bytes, 0, FALSE, m.lv)),
                    !.err = kind,
                    !.lv = Attempt(@, act) ]
    ELSE [ m EXCEPT !.n = @ + 1,
                    !.trace = Append(@, Ev(act, bytes, 0, TRUE, m.lv)),
                    !.lv = Drive(@, act, bytes) ]

rst_set_high(m) == Fallible(m, "rst_high", <<>>, "Pin")
rst_set_low(m)  == Fallible(m, "rst_low", <<>>, "Pin")
csx_set_high(m) == Fallible(m, "csx_high", <<>>, "Pin")
csx_set_low(m)  == Fallible(m, "csx_low", <<>>, "Pin")
dc_set_high(m)  == Fallible(m, "dc_high", <<>>, "Pin")
dc_set_low(m)   == Fallible(m, "dc_low", <<>>, "Pin")

\* self.spi.write(..) in write_command (the opcode) and in write_data
spi_write_command(m, bytes) == Fallible(m, "spi_cmd", bytes, "Spi")
spi_write_data(m, bytes)    == Fallible(m, "spi_data", bytes, "Spi")

\* DelayUs::delay_us is infallible
delay_us(m, us) ==
    [ m EXCEPT !.trace = Append(@, Ev("delay", <<>>, us, TRUE, m.lv)) ]

----------------------------------------------------------------------------
(* The private functions of the driver *)

start_data(m) == dc_set_high(m)

\* write_data dropping the result of the SPI write
write_data_dropping_error(m, data) ==
    Try(csx_set_low(m), LAMBDA m1 :
    Bind([ spi_write_data(m1, data) EXCEPT !.err = "Ok" ], LAMBDA m2 :
    csx_set_high(m2)))

write_data(m, data) ==
    Try(csx_set_low(m), LAMBDA m1 :
    Try(spi_write_data(m1, data), LAMBDA m2 :
    csx_set_high(m2)))

write_word(m, value) == write_data(m, to_be_bytes(value))

\* write_command deselecting the device after the opcode, before the
\* parameters
write_command_deselecting(m, command, params) ==
    Try(csx_set_low(m), LAMBDA m1 :
    Try(dc_set_low(m1), LAMBDA m2 :
    Try(spi_write_command(m2, << InstructionToU8[command] >>), LAMBDA m3 :
    Try(csx_set_high(m3), LAMBDA m4 :
    IF params.some
    THEN Try(start_data(m4), LAMBDA m5 : write_data(m5, params.val))
    ELSE m4))))

write_command(m, command, params) ==
    Try(csx_set_low(m), LAMBDA m1 :
    Try(dc_set_low(m1), LAMBDA m2 :
    Try(spi_write_command(m2, << InstructionToU8[command] >>), LAMBDA m3 :
    Try(IF params.some
        THEN Try(start_data(m3), LAMBDA m4 : write_data(m4, params.val))
        ELSE m3, LAMBDA m5 :
    csx_set_high(m5)))))

\* set_address_window sending (sx, sy) as the columns and (ex, ey) as the rows
set_address_window_transposed(m, sx, sy, ex, ey) ==
    Try(write_command(m, "CASET", None), LAMBDA m1 :
    Try(start_data(m1), LAMBDA m2 :
    Try(write_word(m2, sx), LAMBDA m3 :
    Try(write_word(m3, sy), LAMBDA m4 :
    Try(write_command(m4, "RASET", None), LAMBDA m5 :
    Try(start_data(m5), LAMBDA m6 :
    Try(write_word(m6, ex), LAMBDA m7 :
    write_word(m7, ey))))))))

set_address_window(m, sx, sy, ex, ey) ==
    Try(write_command(m, "CASET", None), LAMBDA m1 :
    Try(start_data(m1), LAMBDA m2 :
    Try(write_word(m2, sx), LAMBDA m3 :
    Try(write_word(m3, ex), LAMBDA m4 :
    Try(write_command(m4, "RASET", None), LAMBDA m5 :
    Try(start_data(m5), LAMBDA m6 :
    Try(write_word(m6, sy), LAMBDA m7 :
    write_word(m7, ey))))))))

\* write_pixels without the feature "buffer": the body of `for color in
\* colors`, which takes one colour from the iterator
words_body(m, color) ==
    write_word([ m EXCEPT !.consumed = @ + 1 ], color)

\* the loop over colors[lo..hi], in order, left by the first `?` that returns
RECURSIVE write_pixels_words(_, _, _, _)
write_pixels_words(m, colors, lo, hi) ==
    IF lo > hi THEN m
    ELSE IF lo = hi THEN words_body(m, colors[lo])
    ELSE Try(write_pixels_words(m, colors, lo, (lo + hi) \div 2), LAMBDA m1 :
         write_pixels_words(m1, colors, (lo + hi) \div 2 + 1, hi))

\* the body flushing one colour before the buffer is full
buffered_body_early_flush(s, color) ==
    Bind(to_be_bytes(color), LAMBDA word :
    Bind([ s.buf EXCEPT ![s.i + 1] = word[1], ![s.i + 2] = word[2] ], LAMBDA buf1 :
    Bind(s.i + 2, LAMBDA i1 :
    Bind([ s.m EXCEPT !.consumed = @ + 1, !.staged = @ \cup { s.i } ], LAMBDA m1 :
    IF i1 = Len(buf1) - 2
    THEN [ m |-> write_data(m1, SubSeq(buf1, 1, i1)), buf |-> buf1, i |-> 0 ]
    ELSE [ m |-> m1, buf |-> buf1, i |-> i1 ]))))

\* write_pixels with the feature "buffer": the body of `for color in colors`
\* on the loop state s = [m, buf, i], buf being the staging buffer (1-based
\* here) and i the index into it
buffered_body(s, color) ==
    Bind(to_be_bytes(color), LAMBDA word :
    Bind([ s.buf EXCEPT ![s.i + 1] = word[1], ![s.i + 2] = word[2] ], LAMBDA buf1 :
    Bind(s.i + 2, LAMBDA i1 :
    Bind([ s.m EXCEPT !.consumed = @ + 1, !.staged = @ \cup { s.i } ], LAMBDA m1 :
    IF i1 = Len(buf1)
    THEN [ m |-> write_data(m1, buf1), buf |-> buf1, i |-> 0 ]
    ELSE [ m |-> m1, buf |-> buf1, i |-> i1 ]))))

\* the loop over colors[lo..hi], in order, left by the first `?` that returns
RECURSIVE buffered_loop(_, _, _, _)
buffered_loop(s, colors, lo, hi) ==
    IF lo > hi THEN s
    ELSE IF lo = hi THEN buffered_body(s, colors[lo])
    ELSE Bind(buffered_loop(s, colors, lo, (lo + hi) \div 2), LAMBDA s1 :
         IF s1.m.err # "Ok" THEN s1
         ELSE buffered_loop(s1, colors, (lo + hi) \div 2 + 1, hi))

\* write_pixels (buffer) without the final flush of a partly filled buffer
write_pixels_buffered_no_flush(m, colors) ==
    buffered_loop([ m |-> m, buf |-> [ k \in 1..BufLen |-> 0 ], i |-> 0 ],
                  colors, 1, Len(colors)).m

\* the loop, then the flush of what is left in the buffer
write_pixels_buffered(m, colors) ==
    Bind(buffered_loop([ m |-> m, buf |-> [ k \in 1..BufLen |-> 0 ], i |-> 0 ],
                       colors, 1, Len(colors)), LAMBDA s :
    IF s.m.err # "Ok" THEN s.m
    ELSE IF s.i > 0 THEN write_data(s.m, SubSeq(s.buf, 1, s.i))
    ELSE s.m)

write_pixels(m, colors, buffered) ==
    IF buffered
    THEN write_pixels_buffered(m, colors)
    ELSE write_pixels_words(m, colors, 1, Len(colors))

----------------------------------------------------------------------------
(* The public operations *)

\* hard_reset with its three waits merged into one after the pulse
hard_reset_coalesced(m) ==
    Try(rst_set_high(m), LAMBDA m1 :
    Try(rst_set_low(m1), LAMBDA m2 :
    Try(rst_set_high(m2), LAMBDA m3 :
    delay_us(m3, 30))))

hard_reset(m) ==
    Try(rst_set_high(m), LAMBDA m1 :
    Bind(delay_us(m1, 10), LAMBDA m2 :
    Try(rst_set_low(m2), LAMBDA m3 :
    Bind(delay_us(m3, 10), LAMBDA m4 :
    Try(rst_set_high(m4), LAMBDA m5 :
    delay_us(m5, 10))))))

\* init sending COLMOD before MADCTL
init_reordered(m) ==
    Try(hard_reset(m), LAMBDA m0 :
    Try(write_command(m0, "SWRESET", None), LAMBDA m1 :
    Bind(delay_us(m1, 150000), LAMBDA m2 :
    Try(write_command(m2, "SLPOUT", None), LAMBDA m3 :
    Bind(delay_us(m3, 10000), LAMBDA m4 :
    Try(write_command(m4, "INVOFF", None), LAMBDA m5 :
    Try(write_command(m5, "COLMOD", Some(<< 85 >>)), LAMBDA m6 :
    Try(write_command(m6, "MADCTL", Some(<< 0 >>)), LAMBDA m7 :
    Try(write_command(m7, "INVON", None), LAMBDA m8 :
    Bind(delay_us(m8, 10000), LAMBDA m9 :
    Try(write_command(m9, "NORON", None), LAMBDA m10 :
    Bind(delay_us(m10, 10000), LAMBDA m11 :
    Try(write_command(m11, "DISPON", None), LAMBDA m12 :
    delay_us(m12, 10000))))))))))))))

\* init going on after a failed hard reset (its result dropped)
init_ignoring_reset(m) ==
    Bind([ hard_reset(m) EXCEPT !.err = "Ok" ], LAMBDA m0 :
    Try(write_command(m0, "SWRESET", None), LAMBDA m1 :
    Bind(delay_us(m1, 150000), LAMBDA m2 :
    Try(write_command(m2, "SLPOUT", None), LAMBDA m3 :
    Bind(delay_us(m3, 10000), LAMBDA m4 :
    Try(write_command(m4, "INVOFF", None), LAMBDA m5 :
    Try(write_command(m5, "MADCTL", Some(<< 0 >>)), LAMBDA m6 :
    Try(write_command(m6, "COLMOD", Some(<< 85 >>)), LAMBDA m7 :
    Try(write_command(m7, "INVON", None), LAMBDA m8 :
    Bind(delay_us(m8, 10000), LAMBDA m9 :
    Try(write_command(m9, "NORON", None), LAMBDA m10 :
    Bind(delay_us(m10, 10000), LAMBDA m11 :
    Try(write_command(m11, "DISPON", None), LAMBDA m12 :
    delay_us(m12, 10000))))))))))))))

\* init waiting 15 ms instead of 150 ms after SWRESET, and waiting for
\* INVON before sending it
init_short_wait(m) ==
    Try(hard_reset(m), LAMBDA m0 :
    Try(write_command(m0, "SWRESET", None), LAMBDA m1 :
    Bind(delay_us(m1, 15000), LAMBDA m2 :
    Try(write_command(m2, "SLPOUT", None), LAMBDA m3 :
    Bind(delay_us(m3, 10000), LAMBDA m4 :
    Try(write_command(m4, "INVOFF", None), LAMBDA m5 :
    Try(write_command(m5, "MADCTL", Some(<< 0 >>)), LAMBDA m6 :
    Try(write_command(m6, "COLMOD", Some(<< 85 >>)), LAMBDA m7 :
    Bind(delay_us(m7, 10000), LAMBDA m8 :
    Try(write_command(m8, "INVON", None), LAMBDA m9 :
    Try(write_command(m9, "NORON", None), LAMBDA m10 :
    Bind(delay_us(m10, 10000), LAMBDA m11 :
    Try(write_command(m11, "DISPON", None), LAMBDA m12 :
    delay_us(m12, 10000))))))))))))))

\* init resuming after the hard reset when chip-select was driven before
init_resuming(m) ==
    Try(IF m.lv.csx = "u" THEN hard_reset(m) ELSE m, LAMBDA m0 :
    Try(write_command(m0, "SWRESET", None), LAMBDA m1 :
    Bind(delay_us(m1, 150000), LAMBDA m2 :
    Try(write_command(m2, "SLPOUT", None), LAMBDA m3 :
    Bind(delay_us(m3, 10000), LAMBDA m4 :
    Try(write_command(m4, "INVOFF", None), LAMBDA m5 :
    Try(write_command(m5, "MADCTL", Some(<< 0 >>)), LAMBDA m6 :
    Try(write_command(m6, "COLMOD", Some(<< 85 >>)), LAMBDA m7 :
    Try(write_command(m7, "INVON", None), LAMBDA m8 :
    Bind(delay_us(m8, 10000), LAMBDA m9 :
    Try(write_command(m9, "NORON", None), LAMBDA m10 :
    Bind(delay_us(m10, 10000), LAMBDA m11 :
    Try(write_command(m11, "DISPON", None), LAMBDA m12 :
    delay_us(m12, 10000))))))))))))))

\* init without the MADCTL command
init_keeping_orientation(m) ==
    Try(hard_reset(m), LAMBDA m0 :
    Try(write_command(m0, "SWRESET", None), LAMBDA m1 :
    Bind(delay_us(m1, 150000), LAMBDA m2 :
    Try(write_command(m2, "SLPOUT", None), LAMBDA m3 :
    Bind(delay_us(m3, 10000), LAMBDA m4 :
    Try(write_command(m4, "INVOFF", None), LAMBDA m5 :
    Try(write_command(m5, "COLMOD", Some(<< 85 >>)), LAMBDA m7 :
    Try(write_command(m7, "INVON", None), LAMBDA m8 :
    Bind(delay_us(m8, 10000), LAMBDA m9 :
    Try(write_command(m9, "NORON", None), LAMBDA m10 :
    Bind(delay_us(m10, 10000), LAMBDA m11 :
    Try(write_command(m11, "DISPON", None), LAMBDA m12 :
    delay_us(m12, 10000)))))))))))))

init(m) ==
    Try(hard_reset(m), LAMBDA m0 :
    Try(write_command(m0, "SWRESET", None), LAMBDA m1 :
    Bind(delay_us(m1, 150000), LAMBDA m2 :
    Try(write_command(m2, "SLPOUT", None), LAMBDA m3 :
    Bind(delay_us(m3, 10000), LAMBDA m4 :
    Try(write_command(m4, "INVOFF", None), LAMBDA m5 :
    Try(write_command(m5, "MADCTL", Some(<< 0 >>)), LAMBDA m6 :
    Try(write_command(m6, "COLMOD", Some(<< 85 >>)), LAMBDA m7 :
    Try(write_command(m7, "INVON", None), LAMBDA m8 :
    Bind(delay_us(m8, 10000), LAMBDA m9 :
    Try(write_command(m9, "NORON", None), LAMBDA m10 :
    Bind(delay_us(m10, 10000), LAMBDA m11 :
    Try(write_command(m11, "DISPON", None), LAMBDA m12 :
    delay_us(m12, 10000))))))))))))))

\* set_orientation sending nothing when the orientation is the one in force
set_orientation_cached(m, orientation) ==
    IF m.lv.madctl = OrientationToU8[orientation]
    THEN m
    ELSE write_command(m, "MADCTL", Some(<< OrientationToU8[orientation] >>))

set_orientation(m, orientation) ==
    write_command(m, "MADCTL", Some(<< OrientationToU8[orientation] >>))

\* set_pixel sending the colour in the selection of RAMWR, as a parameter
set_pixel_param(m, x, y, color) ==
    Try(set_address_window(m, x, y, x, y), LAMBDA m1 :
    write_command(m1, "RAMWR", Some(to_be_bytes(color))))

set_pixel(m, x, y, color) ==
    Try(set_address_window(m, x, y, x, y), LAMBDA m1 :
    Try(write_command(m1, "RAMWR", None), LAMBDA m2 :
    Try(start_data(m2), LAMBDA m3 :
    write_word(m3, color))))

\* set_pixels clipping the window to the screen before sending it
set_pixels_clipping(m, sx, sy, ex, ey, colors, buffered) ==
    Try(set_address_window(m, IF sx < size_x THEN sx ELSE size_x - 1,
                              IF sy < size_y THEN sy ELSE size_y - 1,
                              IF ex < size_x THEN ex ELSE size_x - 1,
                              IF ey < size_y THEN ey ELSE size_y - 1), LAMBDA m1 :
    Try(write_command(m1, "RAMWR", None), LAMBDA m2 :
    Try(start_data(m2), LAMBDA m3 :
    write_pixels(m3, colors, buffered))))

set_pixels(m, sx, sy, ex, ey, colors, buffered) ==
    Try(set_address_window(m, sx, sy, ex, ey), LAMBDA m1 :
    Try(write_command(m1, "RAMWR", None), LAMBDA m2 :
    Try(start_data(m2), LAMBDA m3 :
    write_pixels(m3, colors, buffered))))

----------------------------------------------------------------------------
(* The pins and the bus as the calls leave them *)

Levels == [ csx |-> csx, dc |-> dc, open |-> opcodeOpen, cmd |-> -1, madctl |-> madctl ]

\* the record of a call: the operation, its window <<sx, sy, ex, ey>>, its
\* colours, its orientation (those it does not take are left at a default)
\* and the fallible action that was made to fail (0: none)
Called(name, window, colors, orientation, failAt) ==
    [ name |-> name, window |-> window, colors |-> colors,
      orientation |-> orientation, failAt |-> failAt ]

NoWindow == <<0, 0, 0, 0>>

\* Returns with a set_orientation that exchanges the sizes for the landscape
\* orientations
Returns_swapping(c, m) ==
    /\ phase' = "returned"
    /\ call' = [ c EXCEPT !.failAt = IF m.err = "Ok" THEN 0 ELSE @ ]
    /\ pre' = Levels
    /\ trace' = m.trace
    /\ result' = m.err
    /\ consumed' = m.consumed
    /\ staged' = m.staged
    /\ csx' = m.lv.csx
    /\ dc' = m.lv.dc
    /\ opcodeOpen' = m.lv.open
    /\ madctl' = m.lv.madctl
    /\ IF c.name = "set_orientation"
             /\ c.orientation \in { "Landscape", "LandscapeSwapped" }
       THEN size_x' = size_y /\ size_y' = size_x
       ELSE UNCHANGED <<size_x, size_y>>
    /\ UNCHANGED <<buffer, last>>

\* a public operation was called and has run to its return with call record m
Returns(c, m) ==
    /\ phase' = "returned"
    /\ call' = [ c EXCEPT !.failAt = IF m.err = "Ok" THEN 0 ELSE @ ]
    /\ pre' = Levels
    /\ trace' = m.trace
    /\ result' = m.err
    /\ consumed' = m.consumed
    /\ staged' = m.staged
    /\ csx' = m.lv.csx
    /\ dc' = m.lv.dc
    /\ opcodeOpen' = m.lv.open
    /\ madctl' = m.lv.madctl
    /\ UNCHANGED <<size_x, size_y, buffer, last>>

NoCall == Called("new", NoWindow, <<>>, "Portrait", 0)

\* what a recording shows of an action: not the levels of the pins
Shown(e) == [ act |-> e.act, bytes |-> e.bytes, us |-> e.us, ok |-> e.ok ]
Recording(t) == [ k \in 1..Len(t) |-> Shown(t[k]) ]

NoLast == [ orientation |-> "none", recording |-> <<>>, madctl |-> -1 ]

----------------------------------------------------------------------------
(* The state machine *)

\* ST7789::new stores the sizes and performs no I/O
Init ==
    /\ \E s \in Sizes : size_x = s[1] /\ size_y = s[2]
    /\ buffer \in BOOLEAN
    /\ csx = "u" /\ dc = "u"
    /\ opcodeOpen = FALSE
    /\ madctl = -1
    /\ phase = "idle"
    /\ call = NoCall
    /\ pre = Levels
    /\ trace = <<>>
    /\ result = "Ok"
    /\ consumed = 0
    /\ staged = {}
    /\ last = NoLast

CallInit ==
    /\ phase = "idle"
    /\ \E f \in 0..MaxFail :
           \E m \in { init(Start(f, Levels)) } :
               Returns(Called("init", NoWindow, <<>>, "Portrait", f), m)

CallHardReset ==
    /\ phase = "idle"
    /\ \E f \in 0..MaxFail :
           \E m \in { hard_reset(Start(f, Levels)) } :
               Returns(Called("hard_reset", NoWindow, <<>>, "Portrait", f), m)

CallSetOrientation ==
    /\ phase = "idle"
    /\ \E f \in 0..MaxFail, o \in Orientations :
           \E m \in { set_orientation(Start(f, Levels), o) } :
               Returns(Called("set_orientation", NoWindow, <<>>, o, f), m)

CallSetPixel ==
    /\ phase = "idle"
    /\ \E f \in 0..MaxFail, p \in Points, c \in { 515, 65279 } :
           \E m \in { set_pixel(Start(f, Levels), p[1], p[2], c) } :
               Returns(Called("set_pixel", <<p[1], p[2], p[1], p[2]>>, << c >>, "Portrait", f), m)

CallSetPixels ==
    /\ phase = "idle"
    /\ \E f \in 0..MaxFail, in \in PixelsInputs :
           \E m \in { set_pixels(Start(f, Levels), in[1][1], in[1][2], in[1][3], in[1][4],
                                  in[2], buffer) } :
               Returns(Called("set_pixels", in[1], in[2], "Portrait", f), m)

\* the caller has looked at the result and at the recording and goes on
Continue ==
    /\ phase = "returned"
    /\ phase' = "idle"
    /\ call' = NoCall
    /\ pre' = Levels
    /\ trace' = <<>>
    /\ result' = "Ok"
    /\ consumed' = 0
    /\ staged' = {}
    /\ last' = IF call.name = "set_orientation" /\ result = "Ok"
               THEN [ orientation |-> call.orientation,
                      recording |-> Recording(trace), madctl |-> madctl ]
               ELSE NoLast
    /\ UNCHANGED <<size_x, size_y, buffer, csx, dc, opcodeOpen, madctl>>

Next ==
    \/ CallInit
    \/ CallHardReset
    \/ CallSetOrientation
    \/ CallSetPixel
    \/ CallSetPixels
    \/ Continue

Spec == Init /\ [][Next]_vars

----------------------------------------------------------------------------
(* What the controller receives *)

IsSpi(e) == e.act \in { "spi_cmd", "spi_data" }
IsPin(e) == e.act \in { "rst_high", "rst_low", "csx_high", "csx_low", "dc_high", "dc_low" }

Hi(v) == v \div 256
Lo(v) == v % 256

\* what one action delivers: a byte written while data/command is low is an
\* opcode, the bytes written while it is high are data of the opcode before
\* them, and a delay is time waited after that opcode.  pre and prewait are
\* the data and the time that come before the first opcode.
Delivered(e) ==
    IF e.ok /\ IsSpi(e) /\ e.dc = "low"
    THEN [ pre |-> <<>>, prewait |-> 0,
           cmds |-> [ k \in 1..Len(e.bytes) |->
                        [ op |-> e.bytes[k], data |-> <<>>, wait |-> 0 ] ] ]
    ELSE IF e.ok /\ IsSpi(e)
    THEN [ pre |-> e.bytes, prewait |-> 0, cmds |-> <<>> ]
    ELSE [ pre |-> <<>>, prewait |-> e.us, cmds |-> <<>> ]

Join(a, b) ==
    IF a.cmds = <<>>
    THEN [ pre |-> a.pre \o b.pre, prewait |-> a.prewait + b.prewait, cmds |-> b.cmds ]
    ELSE [ pre |-> a.pre, prewait |-> a.prewait,
           cmds |-> [ a.cmds EXCEPT ![Len(a.cmds)] =
                        [ op |-> @.op, data |-> @.data \o b.pre,
                          wait |-> @.wait + b.prewait ] ] \o b.cmds ]

RECURSIVE ReceivedIn(_, _, _)
ReceivedIn(t, lo, hi) ==
    IF lo > hi THEN [ pre |-> <<>>, prewait |-> 0, cmds |-> <<>> ]
    ELSE IF lo = hi THEN Delivered(t[lo])
    ELSE Bind(ReceivedIn(t, lo, (lo + hi) \div 2), LAMBDA a :
         Bind(ReceivedIn(t, (lo + hi) \div 2 + 1, hi), LAMBDA b : Join(a, b)))

Received(t) == ReceivedIn(t, 1, Len(t))

\* the opcodes and their data, without the waits
Commands(t) ==
    LET r == Received(t)
    IN  [ k \in 1..Len(r.cmds) |-> << r.cmds[k].op, r.cmds[k].data >> ]

Acts(t) == [ k \in 1..Len(t) |-> t[k].act ]

AllOk(t) == \A k \in 1..Len(t) : t[k].ok

Returned(name) == phase = "returned" /\ call.name = name

----------------------------------------------------------------------------
(* C1 *)

ResetActs == << "rst_high", "delay", "rst_low", "delay", "rst_high", "delay" >>

Op(name) == InstructionToU8[name]

InitCommands ==
    << << Op("SWRESET"), <<>> >>, << Op("SLPOUT"), <<>> >>, << Op("INVOFF"), <<>> >>,
       << Op("MADCTL"), << 0 >> >>, << Op("COLMOD"), << 85 >> >>,
       << Op("INVON"), <<>> >>, << Op("NORON"), <<>> >>, << Op("DISPON"), <<>> >> >>

\* C1: a successful init first performs the hard-reset pin sequence and then
\* sends exactly SWRESET, SLPOUT, INVOFF, MADCTL [0x00], COLMOD [0x55], INVON,
\* NORON, DISPON, in this order, and no other opcode or parameter byte.
C1_InitSequence ==
    (Returned("init") /\ result = "Ok") =>
        /\ AllOk(trace)
        /\ Len(trace) > 6
        /\ SubSeq(Acts(trace), 1, 6) = ResetActs
        /\ \A k \in 7..Len(trace) : trace[k].act \notin { "rst_high", "rst_low" }
        /\ Received(trace).pre = <<>>
        /\ Commands(trace) = InitCommands

C1_Witness == Returned("init") /\ result = "Ok" /\ pre.csx = "low"

----------------------------------------------------------------------------
(* C2 *)

SameAction(e, f) == e.act = f.act /\ e.bytes = f.bytes /\ e.us = f.us

HasFailure(t) == \E k \in 1..Len(t) : ~t[k].ok

\* C2: when an action fails during init, init returns the error of that
\* action at once: the failed action is the last action performed, it is
\* performed once, everything before it is the successful init up to there,
\* and a failure of the reset line leaves the bus without a single byte.
C2_InitStopsAtFailure ==
    (Returned("init") /\ HasFailure(trace)) =>
        LET n    == Len(trace)
            full == init(Start(0, pre)).trace
        IN  /\ \A k \in 1..(n - 1) : trace[k].ok
            /\ ~trace[n].ok
            /\ n <= Len(full)
            /\ \A k \in 1..n : SameAction(trace[k], full[k])
            /\ result = (IF IsSpi(trace[n]) THEN "Spi" ELSE "Pin")
            /\ (trace[n].act \in { "rst_high", "rst_low" } =>
                    \A k \in 1..n : ~IsSpi(trace[k]))

C2_Witness ==
    /\ Returned("init") /\ result = "Spi"
    /\ trace[Len(trace)].act = "spi_data"
    /\ trace[Len(trace)].bytes = << 85 >>

----------------------------------------------------------------------------
(* C3 *)

InitFloors == << 150000, 10000, 0, 0, 0, 10000, 10000, 10000 >>

\* C3: in a successful init SWRESET is followed by a wait of at least 150 ms
\* and SLPOUT, INVON, NORON and DISPON by one of at least 10 ms, before the
\* next opcode or the return; INVOFF, MADCTL and COLMOD are followed by none.
C3_InitWaits ==
    (Returned("init") /\ result = "Ok") =>
        LET r == Received(trace)
        IN  /\ Len(r.cmds) = Len(InitFloors)
            /\ \A k \in 1..Len(r.cmds) :
                  IF InitFloors[k] = 0 THEN r.cmds[k].wait = 0
                  ELSE r.cmds[k].wait >= InitFloors[k]

C3_Witness ==
    /\ Returned("init") /\ result = "Ok"
    /\ Received(trace).cmds[1].wait = 150000

----------------------------------------------------------------------------
(* C4 *)

\* C4: a successful hard_reset performs reset high, wait, reset low, wait,
\* reset high, wait, each wait a call of its own of at least 10 us, and
\* nothing else: the reset line ends high and neither chip-select nor
\* data/command nor the bus is touched.
C4_HardResetSequence ==
    (Returned("hard_reset") /\ result = "Ok") =>
        /\ AllOk(trace)
        /\ Acts(trace) = ResetActs
        /\ \A k \in { 2, 4, 6 } : trace[k].us >= 10
        /\ csx = pre.csx /\ dc = pre.dc

C4_Witness == Returned("hard_reset") /\ result = "Ok" /\ Len(trace) = 6

----------------------------------------------------------------------------
(* C5 *)

\* C5: a successful set_pixels sends exactly the opcodes CASET, RASET, RAMWR
\* in this order; the data of CASET is [sx_hi, sx_lo, ex_hi, ex_lo] and the
\* data of RASET is [sy_hi, sy_lo, ey_hi, ey_lo].
C5_AddressWindow ==
    (Returned("set_pixels") /\ result = "Ok") =>
        LET c  == Commands(trace)
            sx == call.window[1]
            sy == call.window[2]
            ex == call.window[3]
            ey == call.window[4]
        IN  /\ Received(trace).pre = <<>>
            /\ Len(c) = 3
            /\ c[1] = << Op("CASET"), << Hi(sx), Lo(sx), Hi(ex), Lo(ex) >> >>
            /\ c[2] = << Op("RASET"), << Hi(sy), Lo(sy), Hi(ey), Lo(ey) >> >>
            /\ c[3][1] = Op("RAMWR")

C5_Witness ==
    /\ Returned("set_pixels") /\ result = "Ok"
    /\ call.window = << 4660, 22136, 39612, 57072 >>

----------------------------------------------------------------------------
(* C6 *)

\* the colours as a byte stream, most significant byte first
BigEndian(colors) ==
    [ k \in 1..(2 * Len(colors)) |->
        IF k % 2 = 1 THEN Hi(colors[(k + 1) \div 2]) ELSE Lo(colors[k \div 2]) ]

\* C6: the data bytes a successful set_pixels sends after RAMWR are the 2N
\* bytes hi(c_1), lo(c_1), ..., hi(c_N), lo(c_N), with and without the
\* feature "buffer".
C6_PixelStream ==
    (Returned("set_pixels") /\ result = "Ok") =>
        LET c == Commands(trace)
        IN  /\ Len(c) = 3
            /\ c[3][2] = BigEndian(call.colors)
            /\ consumed = Len(call.colors)

C6_Witness ==
    /\ Returned("set_pixels") /\ result = "Ok"
    /\ buffer
    /\ Len(call.colors) = 65

----------------------------------------------------------------------------
(* C7 *)

\* C7: set_pixel(x, y, c) performs the same actions, with the same bytes in
\* the same transfers, and returns the same result as
\* set_pixels(x, y, x, y, [c]) does from the same pin levels under the same
\* injected failure, with and without the feature "buffer".
C7_SetPixelIsSetPixels ==
    Returned("set_pixel") =>
        LET x == call.window[1]
            y == call.window[2]
            m == set_pixels(Start(call.failAt, pre), x, y, x, y, call.colors, buffer)
        IN  /\ call.window = << x, y, x, y >>
            /\ Len(call.colors) = 1
            /\ trace = m.trace
            /\ result = m.err

C7_Witness ==
    /\ Returned("set_pixel") /\ result = "Ok"
    /\ buffer
    /\ call.window[1] = 4660

----------------------------------------------------------------------------
(* C8 *)

OrientationByte(o) ==
    CASE o = "Portrait"         -> 0
      [] o = "Landscape"        -> 96
      [] o = "PortraitSwapped"  -> 192
      [] o = "LandscapeSwapped" -> 160

\* C8: a successful set_orientation sends exactly one opcode, MADCTL, with
\* exactly one parameter byte: 0x00 for Portrait, 0x60 for Landscape, 0xC0
\* for PortraitSwapped, 0xA0 for LandscapeSwapped; the four differ.
C8_OrientationByte ==
    (Returned("set_orientation") /\ result = "Ok") =>
        /\ Received(trace).pre = <<>>
        /\ Commands(trace) = << << Op("MADCTL"), << OrientationByte(call.orientation) >> >> >>
        /\ \A o1, o2 \in Orientations :
              o1 # o2 => OrientationToU8[o1] # OrientationToU8[o2]

C8_Witness ==
    Returned("set_orientation") /\ result = "Ok" /\ call.orientation = "LandscapeSwapped"

----------------------------------------------------------------------------
(* C9 *)

\* C9: over any sequence of public operations, failed ones included, every
\* SPI transfer happens while chip-select is low; an opcode transfer carries
\* one byte and happens while data/command is low; parameter and pixel bytes
\* are transferred while data/command is high; and chip-select is driven high
\* between any two opcode transfers.
C9_BusDiscipline ==
    \A k \in 1..Len(trace) :
        LET e == trace[k]
        IN  /\ (e.ok /\ IsSpi(e)) => e.csx = "low"
            /\ (e.ok /\ e.act = "spi_cmd") =>
                  (Len(e.bytes) = 1 /\ e.dc = "low" /\ ~e.open)
            /\ (e.ok /\ e.act = "spi_data") => e.dc = "high"

----------------------------------------------------------------------------
(* C10 *)

WithParams == { Op("MADCTL"), Op("COLMOD"), Op("CASET"), Op("RASET") }

\* C10 as claimed: chip-select is not driven high between the opcode of
\* MADCTL, COLMOD, CASET or RASET and the last of its parameter bytes.
C10_ParamsInOneSelection ==
    \A k \in 1..Len(trace) :
        LET e == trace[k]
        IN  (e.ok /\ e.act = "spi_data" /\ e.cmd \in WithParams) => e.open

\* C10: the parameter of MADCTL and of COLMOD is sent in the selection of its
\* opcode: device selected, data/command low, opcode, data/command high,
\* parameter, device deselected, chip-select not being driven high in
\* between.  CASET and RASET are sent as commands without parameters:
\* chip-select is driven high after the opcode, and each of the two 16-bit
\* values follows in a selection of its own, data/command being high.
C10_Framing ==
    \A k \in 1..Len(trace) :
        LET e == trace[k]
        IN  (e.ok /\ e.act = "spi_data") =>
              /\ e.csx = "low" /\ e.dc = "high"
              /\ e.cmd \in { Op("MADCTL"), Op("COLMOD") } =>
                    /\ e.open
                    /\ k >= 6
                    /\ SubSeq(Acts(trace), k - 5, k - 1) =
                          << "csx_low", "dc_low", "spi_cmd", "dc_high", "csx_low" >>
                    /\ k < Len(trace) => trace[k + 1].act = "csx_high"
              /\ e.cmd \in { Op("CASET"), Op("RASET") } =>
                    /\ ~e.open
                    /\ Len(e.bytes) = 2
                    /\ trace[k - 1].act = "csx_low"
                    /\ k < Len(trace) => trace[k + 1].act = "csx_high"

C10_Witness ==
    /\ Returned("set_pixels") /\ result = "Ok"
    /\ \E k \in 1..Len(trace) :
          trace[k].ok /\ trace[k].act = "spi_data" /\ trace[k].cmd = Op("RASET")

----------------------------------------------------------------------------
(* C11 *)

\* C11: set_pixel and set_pixels validate nothing.  Whenever no pin or SPI
\* action fails they return Ok, whatever the coordinates (beyond the screen,
\* start after end), the number of colours and the calls made before; the
\* controller receives the coordinates as given, CASET [sx, ex] and
\* RASET [sy, ey], and every colour after RAMWR: bytes that are determined by
\* the arguments alone, not by size_x or size_y.
C11_NoValidation ==
    (phase = "returned" /\ call.name \in { "set_pixel", "set_pixels" }
        /\ ~HasFailure(trace)) =>
        LET sx == call.window[1]
            sy == call.window[2]
            ex == call.window[3]
            ey == call.window[4]
        IN  /\ result = "Ok"
            /\ Received(trace).pre = <<>>
            /\ Commands(trace) =
                  << << Op("CASET"), << Hi(sx), Lo(sx), Hi(ex), Lo(ex) >> >>,
                     << Op("RASET"), << Hi(sy), Lo(sy), Hi(ey), Lo(ey) >> >>,
                     << Op("RAMWR"), BigEndian(call.colors) >> >>
            /\ call.name = "set_pixels" => consumed = Len(call.colors)

\* a window with rows beyond the screen and start after end, two colours for
\* it, on a driver whose pins were never driven (no init before)
C11_Witness ==
    /\ Returned("set_pixels") /\ result = "Ok"
    /\ call.window = << 239, 319, 16, 32 >>
    /\ size_y = 240
    /\ Len(call.colors) = 2
    /\ pre.csx = "u" /\ pre.madctl = -1

----------------------------------------------------------------------------
(* C12 *)

\* the data transfers begun after RAMWR: write_data starts each with
\* csx.set_low
Begun(t) ==
    Cardinality({ k \in 1..Len(t) : t[k].act = "csx_low" /\ t[k].cmd = Op("RAMWR") })

\* the colours set_pixels has taken from the iterator when it has begun w
\* data transfers: one for each without the feature "buffer", 64 for each,
\* or what was left, with it
Taken(w, colors, buffered) ==
    IF ~buffered THEN w
    ELSE IF 64 * w >= Len(colors) THEN Len(colors) ELSE 64 * w

\* C12: every public operation returns Ok exactly when none of its actions
\* failed; otherwise the failed action is the only one that failed and the
\* last action performed, no colour is taken from the iterator after it, and
\* the result is Spi when it was an SPI write and Pin when it was a reset,
\* chip-select or data/command pin action.  hard_reset fails with Pin only.
C12_FirstErrorReturned ==
    phase = "returned" =>
        LET n == Len(trace)
        IN  /\ \A k \in 1..(n - 1) : trace[k].ok
            /\ (result = "Ok") = ~HasFailure(trace)
            /\ HasFailure(trace) =>
                  /\ ~trace[n].ok
                  /\ IsSpi(trace[n]) \/ IsPin(trace[n])
                  /\ (result = "Spi") = IsSpi(trace[n])
                  /\ (result = "Pin") = IsPin(trace[n])
            /\ call.name = "hard_reset" => result \in { "Ok", "Pin" }
            /\ consumed = IF call.name = "set_pixels"
                          THEN Taken(Begun(trace), call.colors, buffer)
                          ELSE 0

\* the SPI write of the second full buffer failed: 128 of 129 colours taken
C12_Witness ==
    /\ Returned("set_pixels") /\ result = "Spi"
    /\ buffer
    /\ Len(call.colors) = 129
    /\ consumed = 128
    /\ trace[Len(trace)].act = "spi_data"

----------------------------------------------------------------------------
(* C13 *)

\* the pins and the controller of a freshly constructed driver
Fresh == [ csx |-> "u", dc |-> "u", open |-> FALSE, cmd |-> -1, madctl |-> -1 ]

\* C13: whatever was called before and however it ended, init starts with
\* the first action of the hard reset, and when nothing fails it performs
\* the actions, with the bytes and the waits, of an init on a freshly
\* constructed driver; under an injected failure it stops where that init
\* would.
C13_InitFromScratch ==
    Returned("init") =>
        /\ trace # <<>>
        /\ trace[1].act = "rst_high"
        /\ ~HasFailure(trace) =>
              /\ result = "Ok"
              /\ Recording(trace) = Recording(init(Start(0, Fresh)).trace)
        /\ Recording(trace) = Recording(init(Start(call.failAt, Fresh)).trace)

\* a successful init after an init that failed behind the MADCTL opcode,
\* the orientation having been set before
C13_Witness ==
    /\ Returned("init") /\ result = "Ok"
    /\ pre.open /\ pre.csx = "low" /\ pre.dc = "low"
    /\ pre.madctl = 192

----------------------------------------------------------------------------
(* C14 *)

\* C14: after a successful set_orientation(o) the controller's orientation
\* byte is the constant of o, whatever it was before; and when the call
\* before was a successful set_orientation(o) too, the second call performs
\* the same actions with the same bytes as the first and leaves the byte as
\* the first left it.
C14_OrientationStateless ==
    (Returned("set_orientation") /\ result = "Ok") =>
        /\ madctl = OrientationByte(call.orientation)
        /\ last.orientation = call.orientation =>
              /\ Recording(trace) = last.recording
              /\ Recording(trace) # <<>>
              /\ madctl = last.madctl

\* set_orientation(Landscape) twice in a row
C14_Witness ==
    /\ Returned("set_orientation") /\ result = "Ok"
    /\ call.orientation = "Landscape"
    /\ last.orientation = "Landscape"

----------------------------------------------------------------------------
(* C15 *)

\* C15: no step changes size_x or size_y, so that in every reachable state
\* they are the values new stored, after successful and after failed calls.
C15_SizesFixed == [][size_x' = size_x /\ size_y' = size_y]_vars

\* a landscape orientation was set on a screen that is not square
C15_Witness ==
    /\ Returned("set_orientation") /\ result = "Ok"
    /\ call.orientation = "Landscape"
    /\ size_x = 240 /\ size_y = 320

----------------------------------------------------------------------------
(* C16 *)

\* C16: a public operation that has driven chip-select and returns Ok or an
\* SPI error leaves chip-select high: write_command and write_data deselect
\* the device on every path by which they return.
C16_DeselectedOnReturn ==
    (/\ phase = "returned"
     /\ result \in { "Ok", "Spi" }
     /\ \E k \in 1..Len(trace) : trace[k].ok /\ trace[k].act = "csx_low") =>
        csx = "high"

----------------------------------------------------------------------------
(* C17 *)

\* the data transfers made after RAMWR
PixelTransfers(t) ==
    SelectSeq(t, LAMBDA e : e.ok /\ e.act = "spi_data" /\ e.cmd = Op("RAMWR"))

\* C17: with the feature "buffer", every index at which set_pixels stores a
\* colour is even and within 0..126; no data transfer after RAMWR is empty
\* and all but the last are of 128 bytes; and when set_pixels succeeds with
\* N colours there are ceil(N / 64) transfers (none for N = 0), the last of
\* 2 * (N mod 64) bytes when 64 does not divide N and of 128 when it does.
C17_StagingBuffer ==
    (Returned("set_pixels") /\ buffer) =>
        LET x == PixelTransfers(trace)
            N == Len(call.colors)
        IN  /\ \A i \in staged : i % 2 = 0 /\ 0 <= i /\ i <= BufLen - 2
            /\ \A k \in 1..Len(x) : Len(x[k].bytes) > 0
            /\ \A k \in 1..(Len(x) - 1) : Len(x[k].bytes) = BufLen
            /\ result = "Ok" =>
                  /\ Len(x) = (N + 63) \div 64
                  /\ N = 0 => x = <<>>
                  /\ N % 64 # 0 => Len(x[Len(x)].bytes) = 2 * (N % 64)
                  /\ (N > 0 /\ N % 64 = 0) => Len(x[Len(x)].bytes) = BufLen
                  /\ staged = { 2 * j : j \in 0..((IF N < 64 THEN N ELSE 64) - 1) }

\* 129 colours: two full buffers and one colour, every index used
C17_Witness ==
    /\ Returned("set_pixels") /\ result = "Ok"
    /\ buffer
    /\ Len(call.colors) = 129
    /\ 126 \in staged
    /\ Len(PixelTransfers(trace)) = 3

----------------------------------------------------------------------------
(* C18 *)

\* C18: a successful init leaves the controller's orientation byte, the last
\* MADCTL parameter received, at 0x00 (Portrait), whatever it was before;
\* and in every reachable state the byte, once one has been received, is
\* 0x00, 0x60, 0xC0 or 0xA0.
C18_InitResetsOrientation ==
    /\ (Returned("init") /\ result = "Ok") =>
          /\ madctl = 0
          /\ madctl = OrientationToU8["Portrait"]
    /\ madctl # -1 => madctl \in { 0, 96, 192, 160 }
    /\ (madctl = -1) = (pre.madctl = -1 /\ \A k \in 1..Len(trace) :
                            ~(trace[k].ok /\ trace[k].act = "spi_data"
                                 /\ trace[k].cmd = Op("MADCTL")))

\* init after set_orientation(Landscape): the orientation is lost
C18_Witness ==
    /\ Returned("init") /\ result = "Ok"
    /\ pre.madctl = 96
    /\ madctl = 0

====
